---- MODULE Spec2Model ----
(***************************************************************************)
(* Model of network/model.py of Text-Classification-PyTorch: the helper    *)
(* cal_seq_len and the forward computation of the seven classifiers.       *)
(*                                                                         *)
(* A tensor is a record [ok, err, shape, v].  shape is <<B, L, D>> for a   *)
(* sequence tensor and <<B, D>> for a pooled one.  v[b][p] (or v[b]) is a  *)
(* symbolic term standing for the D-wide vector stored there: the terms    *)
(* are free (uninterpreted) applications of the layers, so two terms are   *)
(* equal exactly when the vectors are equal for every choice of the        *)
(* learned parameters.  A failed operation yields [ok |-> FALSE] with the  *)
(* kind of the error torch raises, and every later operation passes the    *)
(* failure on, as a raised exception does.                                 *)
(***************************************************************************)
EXTENDS Integers, Sequences, FiniteSets, TLC

VARIABLES config, x, call, res

vars == <<config, x, call, res>>

(* Bounds of the explored inputs.  MaxPad bounds the extra right padding
   the padding-invariance property compares a batch with. *)
MaxBatch == 2
MaxSeqLen == 4
MaxEmbed == 3
MaxHidden == 3
MaxTag == 2
MaxBlock == 1
MaxLayer == 2
MaxVocab == 3
MaxPad == 2

(* ------------------------------------------------------------------ *)
(* Tensors and the torch operations model.py calls                     *)
(* ------------------------------------------------------------------ *)

Zero == <<"zero">>

Fail(kind) == [ok |-> FALSE, err |-> kind, shape |-> <<>>, v |-> <<>>]

Tensor(shape, v) == [ok |-> TRUE, err |-> "", shape |-> shape, v |-> v]

Rank(t) == Len(t.shape)

LastDim(t) == t.shape[Len(t.shape)]

(* nn.Embedding(vocab, embed_dim, padding_idx): the padding id's row of the
   table is the zero vector; an id outside [0, vocab) is an index error. *)
Embedding(c, ids) ==
    IF \E b \in 1..Len(ids) : \E p \in 1..Len(ids[b]) : ids[b][p] \notin 0..(c.vocab - 1)
    THEN Fail("index_error")
    ELSE Tensor(<<Len(ids), Len(ids[1]), c.embed_dim>>,
                [b \in 1..Len(ids) |->
                   [p \in 1..Len(ids[b]) |->
                      IF ids[b][p] = c.padding_id THEN Zero ELSE <<"emb", ids[b][p]>>]])

(* Elementwise activation (F.relu, Tensor.tanh) on a tensor of rank 2 or 3. *)
Activate(name, t) ==
    IF ~t.ok THEN t
    ELSE IF Rank(t) = 3
         THEN Tensor(t.shape, [b \in 1..t.shape[1] |->
                                 [p \in 1..t.shape[2] |-> <<name, t.v[b][p]>>]])
         ELSE Tensor(t.shape, [b \in 1..t.shape[1] |-> <<name, t.v[b]>>])

Relu(t) == Activate("relu", t)

Tanh(t) == Activate("tanh", t)

(* nn.Linear(in_dim, out_dim) applied on the last axis. *)
Linear(name, in_dim, out_dim, t) ==
    IF ~t.ok THEN t
    ELSE IF LastDim(t) # in_dim THEN Fail("size_error")
    ELSE IF Rank(t) = 3
         THEN Tensor(<<t.shape[1], t.shape[2], out_dim>>,
                     [b \in 1..t.shape[1] |->
                        [p \in 1..t.shape[2] |-> <<"linear", name, t.v[b][p]>>]])
         ELSE Tensor(<<t.shape[1], out_dim>>,
                     [b \in 1..t.shape[1] |-> <<"linear", name, t.v[b]>>])

(* torch.max(t, dim=1) of a sequence tensor: the elementwise maximum over
   all positions of the sequence axis; an empty axis is an error. *)
TorchMax(t) ==
    IF ~t.ok THEN t
    ELSE IF t.shape[2] < 1 THEN Fail("index_error")
    ELSE Tensor(<<t.shape[1], t.shape[3]>>,
                [b \in 1..t.shape[1] |->
                   <<"max", {t.v[b][p] : p \in 1..t.shape[2]}>>])

(* torch.cat([a, b], dim=-1): all axes but the last must agree. *)
Cat(a, b) ==
    IF ~a.ok THEN a
    ELSE IF ~b.ok THEN b
    ELSE IF Rank(a) # Rank(b) \/ SubSeq(a.shape, 1, Rank(a) - 1) # SubSeq(b.shape, 1, Rank(b) - 1)
         THEN Fail("size_error")
    ELSE IF Rank(a) = 3
         THEN Tensor(<<a.shape[1], a.shape[2], a.shape[3] + b.shape[3]>>,
                     [i \in 1..a.shape[1] |->
                        [p \in 1..a.shape[2] |-> <<"cat", a.v[i][p], b.v[i][p]>>]])
         ELSE Tensor(<<a.shape[1], a.shape[2] + b.shape[2]>>,
                     [i \in 1..a.shape[1] |-> <<"cat", a.v[i], b.v[i]>>])

(* a + b on two sequence tensors of the same shape. *)
Add(a, b) ==
    IF ~a.ok THEN a
    ELSE IF ~b.ok THEN b
    ELSE IF a.shape # b.shape THEN Fail("size_error")
    ELSE Tensor(a.shape, [i \in 1..a.shape[1] |->
                            [p \in 1..a.shape[2] |-> <<"add", a.v[i][p], b.v[i][p]>>]])

(* t[torch.arange(batch_size), idx, :]: row b contributes position idx[b].
   torch accepts an index i with -L <= i < L, a negative one counting from
   the end of the axis, and raises IndexError for any other. *)
Gather(t, idx) ==
    IF ~t.ok THEN t
    ELSE IF \E b \in 1..t.shape[1] : idx[b] < -t.shape[2] \/ idx[b] >= t.shape[2]
         THEN Fail("index_error")
    ELSE Tensor(<<t.shape[1], t.shape[3]>>,
                [b \in 1..t.shape[1] |->
                   t.v[b][(IF idx[b] < 0 THEN idx[b] + t.shape[2] ELSE idx[b]) + 1]])

(* ------------------------------------------------------------------ *)
(* The layers of network/layer.py, as model.py uses them               *)
(* ------------------------------------------------------------------ *)

DefaultWin == 3

DefaultPad == 1

(* State of one direction of recurrent layer k after reading s[1..p] from
   the left: the cell applied to the previous state and the input at p,
   from the zero initial state. *)
RECURSIVE FwdState(_, _, _)
FwdState(k, s, p) ==
    IF p = 0 THEN Zero ELSE <<"cell", "fwd", k, FwdState(k, s, p - 1), s[p]>>

(* The backward direction: the state at p after reading s[Len(s)..p]. *)
RECURSIVE BwdState(_, _, _)
BwdState(k, s, p) ==
    IF p = Len(s) + 1 THEN Zero ELSE <<"cell", "bwd", k, BwdState(k, s, p + 1), s[p]>>

(* The outputs of a stack of n recurrent layers over the sequence s. *)
RECURSIVE Recur(_, _, _)
Recur(bi, n, s) ==
    IF n = 0 THEN s
    ELSE LET prev == Recur(bi, n - 1, s)
         IN  [p \in 1..Len(s) |->
                IF bi THEN <<"bi", FwdState(n, prev, p), BwdState(n, prev, p)>>
                ELSE FwdState(n, prev, p)]

(* LSTMLayer(in_dim, out_dim, n_layer, bi): a batch-first recurrent encoder
   over the whole sequence given; the output at each position has width
   out_dim, or 2 * out_dim (forward and backward halves) when bi.  Dropout
   between the layers acts in training only and is left out. *)
LSTMLayer(in_dim, out_dim, n_layer, bi, t) ==
    IF ~t.ok THEN t
    ELSE IF t.shape[3] # in_dim \/ t.shape[2] < 1 THEN Fail("size_error")
    ELSE Tensor(<<t.shape[1], t.shape[2], IF bi THEN 2 * out_dim ELSE out_dim>>,
                [b \in 1..t.shape[1] |-> Recur(bi, n_layer, t.v[b])])

(* CNNLayer(in_dim, out_dim, win, pad): a one-dimensional convolution over
   the sequence axis with window win and pad zero positions on each side.
   Output length is L + 2 * pad - win + 1; a window wider than the padded
   input is a size error. *)
CNNLayer(name, in_dim, out_dim, win, pad, t) ==
    IF ~t.ok THEN t
    ELSE IF t.shape[3] # in_dim \/ t.shape[2] + 2 * pad < win THEN Fail("size_error")
    ELSE LET L == t.shape[2]
             at(b, i) == IF i \in 1..L THEN t.v[b][i] ELSE Zero
         IN  Tensor(<<t.shape[1], L + 2 * pad - win + 1, out_dim>>,
                    [b \in 1..t.shape[1] |->
                       [q \in 1..(L + 2 * pad - win + 1) |->
                          <<"conv", name, [j \in 1..win |-> at(b, q + j - 1 - pad)]>>]])

(* AttnLayer(in_dim, attn_dim): attention pooling, a weighted sum of all the
   positions of the sequence given. *)
AttnLayer(in_dim, attn_dim, t) ==
    IF ~t.ok THEN t
    ELSE IF t.shape[3] # in_dim \/ t.shape[2] < 1 THEN Fail("size_error")
    ELSE Tensor(<<t.shape[1], t.shape[3]>>,
                [b \in 1..t.shape[1] |-> <<"attn", t.v[b]>>])

(* The downsampling of a pyramid block: stride-2 max-pooling that halves
   the sequence length, and leaves a sequence of length 1 as it is. *)
Downsample(t) ==
    IF ~t.ok THEN t
    ELSE IF t.shape[2] < 2 THEN t
    ELSE Tensor(<<t.shape[1], t.shape[2] \div 2, t.shape[3]>>,
                [b \in 1..t.shape[1] |->
                   [q \in 1..(t.shape[2] \div 2) |->
                      <<"max", {t.v[b][2 * q - 1], t.v[b][2 * q]}>>]])

(* CNNBlock(): one pyramid block at the fixed width of DPCNNModel: the
   downsampling, then two padded convolutions with ReLU before each, added
   residually to the downsampled input. *)
CNNBlock(k, width, t) ==
    LET px == Downsample(t)
        c1 == CNNLayer(<<"block", k, 1>>, width, width, DefaultWin, DefaultPad, Relu(px))
        c2 == CNNLayer(<<"block", k, 2>>, width, width, DefaultWin, DefaultPad, Relu(c1))
    IN  Add(c2, px)

(* nn.Sequential of n blocks: the identity when n = 0. *)
RECURSIVE Blocks(_, _, _)
Blocks(n, width, t) ==
    IF n = 0 THEN t ELSE CNNBlock(n, width, Blocks(n - 1, width, t))

(* ------------------------------------------------------------------ *)
(* network/model.py                                                    *)
(* ------------------------------------------------------------------ *)

DPCNNHidden == 250

RECURSIVE CountEq(_, _)
CountEq(row, id) ==
    IF Len(row) = 0 THEN 0
    ELSE (IF row[1] = id THEN 1 ELSE 0) + CountEq(SubSeq(row, 2, Len(row)), id)

(* (x == padding_id).sum(dim=-1) subtracted from max_seq_len, row by row. *)
(* Variant: the padding id taken to be 0 whatever the configuration. *)
cal_seq_len_ZeroPad(ids, max_seq_len, padding_id) ==
    [b \in 1..Len(ids) |-> max_seq_len - CountEq(ids[b], 0)]

cal_seq_len(ids, max_seq_len, padding_id) ==
    [b \in 1..Len(ids) |-> max_seq_len - CountEq(ids[b], padding_id)]

(* Variant: the last time step x[:, -1, :] selected for every row. *)
LSTMModel_forward_LastStep(c, ids) ==
    LET batch_size == Len(ids)
        max_len == Len(ids[1])
        lens == cal_seq_len(ids, max_len, c.padding_id)
        emb == Embedding(c, ids)
        enc == LSTMLayer(c.embed_dim, c.hidden_dim, c.n_layer, FALSE, emb)
        idx == [b \in 1..batch_size |-> -1]
        sel == Gather(enc, idx)
    IN  [lens |-> lens, index |-> idx, enc |-> enc, hidden |-> sel,
         out |-> Linear("linear", c.hidden_dim, c.tag_dim, sel)]

(* Variant: the gather indexed by lens instead of lens - 1. *)
LSTMModel_forward_OffByOne(c, ids) ==
    LET batch_size == Len(ids)
        max_len == Len(ids[1])
        lens == cal_seq_len(ids, max_len, c.padding_id)
        emb == Embedding(c, ids)
        enc == LSTMLayer(c.embed_dim, c.hidden_dim, c.n_layer, FALSE, emb)
        idx == [b \in 1..batch_size |-> lens[b]]
        sel == Gather(enc, idx)
    IN  [lens |-> lens, index |-> idx, enc |-> enc, hidden |-> sel,
         out |-> Linear("linear", c.hidden_dim, c.tag_dim, sel)]

LSTMModel_forward(c, ids) ==
    LET batch_size == Len(ids)
        max_len == Len(ids[1])
        lens == cal_seq_len(ids, max_len, c.padding_id)
        emb == Embedding(c, ids)
        enc == LSTMLayer(c.embed_dim, c.hidden_dim, c.n_layer, FALSE, emb)
        idx == [b \in 1..batch_size |-> lens[b] - 1]
        sel == Gather(enc, idx)
    IN  [lens |-> lens, index |-> idx, enc |-> enc, hidden |-> sel,
         out |-> Linear("linear", c.hidden_dim, c.tag_dim, sel)]

(* Variant: the bidirectional encoder built with embed_dim per direction. *)
RCNNModel_forward_FullWidth(c, ids) ==
    LET word == Embedding(c, ids)
        context == LSTMLayer(c.embed_dim, c.embed_dim, 1, TRUE, word)
        cat == Cat(word, context)
        feat == Tanh(Linear("encoder", 2 * c.embed_dim, c.hidden_dim, cat))
        pooled == TorchMax(feat)
    IN  [context |-> context, cat |-> cat, feat |-> feat, pooled |-> pooled,
         out |-> Linear("linear", c.hidden_dim, c.tag_dim, pooled)]

RCNNModel_forward(c, ids) ==
    LET word == Embedding(c, ids)
        context == LSTMLayer(c.embed_dim, c.embed_dim \div 2, 1, TRUE, word)
        cat == Cat(word, context)
        feat == Tanh(Linear("encoder", 2 * c.embed_dim, c.hidden_dim, cat))
        pooled == TorchMax(feat)
    IN  [context |-> context, cat |-> cat, feat |-> feat, pooled |-> pooled,
         out |-> Linear("linear", c.hidden_dim, c.tag_dim, pooled)]

(* Variant: the bidirectional encoder built with hidden_dim per direction. *)
BiLSTMAttnModel_forward_FullWidth(c, ids) ==
    LET emb == Embedding(c, ids)
        enc == LSTMLayer(c.embed_dim, c.hidden_dim, 1, TRUE, emb)
        pooled == AttnLayer(c.hidden_dim, c.attn_dim, enc)
    IN  [enc |-> enc, pooled |-> pooled,
         out |-> Linear("linear", c.hidden_dim, c.tag_dim, pooled)]

BiLSTMAttnModel_forward(c, ids) ==
    LET emb == Embedding(c, ids)
        enc == LSTMLayer(c.embed_dim, c.hidden_dim \div 2, 1, TRUE, emb)
        pooled == AttnLayer(c.hidden_dim, c.attn_dim, enc)
    IN  [enc |-> enc, pooled |-> pooled,
         out |-> Linear("linear", c.hidden_dim, c.tag_dim, pooled)]

(* Variant: the max over positions left out before the head. *)
CNNModel_forward_NoPool(c, ids) ==
    LET emb == Embedding(c, ids)
        feat == CNNLayer("conv", c.embed_dim, c.hidden_dim, DefaultWin, DefaultPad, emb)
    IN  [feat |-> feat, pooled |-> feat,
         out |-> Linear("linear", c.hidden_dim, c.tag_dim, Relu(feat))]

(* Variant: the max taken over the first lens positions of each row only. *)
CNNModel_forward_Masked(c, ids) ==
    LET emb == Embedding(c, ids)
        lens == cal_seq_len(ids, Len(ids[1]), c.padding_id)
        feat == CNNLayer("conv", c.embed_dim, c.hidden_dim, DefaultWin, DefaultPad, emb)
        pooled == IF ~feat.ok THEN feat
                  ELSE Tensor(<<feat.shape[1], feat.shape[3]>>,
                              [b \in 1..feat.shape[1] |->
                                 <<"max", {feat.v[b][p] : p \in 1..lens[b]}>>])
    IN  [feat |-> feat, pooled |-> pooled,
         out |-> Linear("linear", c.hidden_dim, c.tag_dim, Relu(pooled))]

CNNModel_forward(c, ids) ==
    LET emb == Embedding(c, ids)
        feat == CNNLayer("conv", c.embed_dim, c.hidden_dim, DefaultWin, DefaultPad, emb)
        pooled == TorchMax(feat)
    IN  [feat |-> feat, pooled |-> pooled,
         out |-> Linear("linear", c.hidden_dim, c.tag_dim, Relu(pooled))]

(* Variant: the third branch built with window 3 like the second. *)
TextCNNModel_forward_Window3(c, ids) ==
    LET emb == Embedding(c, ids)
        feat1 == Relu(CNNLayer("conv1", c.embed_dim, c.hidden_dim, 2, 0, emb))
        feat2 == Relu(CNNLayer("conv2", c.embed_dim, c.hidden_dim, 3, 0, emb))
        feat3 == Relu(CNNLayer("conv3", c.embed_dim, c.hidden_dim, 3, 0, emb))
        feat == Cat(Cat(TorchMax(feat1), TorchMax(feat2)), TorchMax(feat3))
    IN  [feat1 |-> feat1, feat2 |-> feat2, feat3 |-> feat3, pooled |-> feat,
         out |-> Linear("linear", c.hidden_dim * 3, c.tag_dim, feat)]

TextCNNModel_forward(c, ids) ==
    LET emb == Embedding(c, ids)
        feat1 == Relu(CNNLayer("conv1", c.embed_dim, c.hidden_dim, 2, 0, emb))
        feat2 == Relu(CNNLayer("conv2", c.embed_dim, c.hidden_dim, 3, 0, emb))
        feat3 == Relu(CNNLayer("conv3", c.embed_dim, c.hidden_dim, 4, 0, emb))
        feat == Cat(Cat(TorchMax(feat1), TorchMax(feat2)), TorchMax(feat3))
    IN  [feat1 |-> feat1, feat2 |-> feat2, feat3 |-> feat3, pooled |-> feat,
         out |-> Linear("linear", c.hidden_dim * 3, c.tag_dim, feat)]

(* Variant: the blocks applied to the conv2 output without the residual. *)
DPCNNModel_forward_NoResidual(c, ids) ==
    LET hidden_dim == DPCNNHidden
        emb == CNNLayer("region_embedding", c.embed_dim, hidden_dim, 3, 1, Embedding(c, ids))
        x1 == CNNLayer("conv1", hidden_dim, hidden_dim, 3, 1, Relu(emb))
        x2 == CNNLayer("conv2", hidden_dim, hidden_dim, 3, 1, Relu(x1))
        feat == Blocks(c.n_block, hidden_dim, x2)
        pooled == TorchMax(feat)
    IN  [emb |-> emb, conv2 |-> x2, feat |-> feat, pooled |-> pooled,
         out |-> Linear("linear", hidden_dim, c.tag_dim, pooled)]

DPCNNModel_forward(c, ids) ==
    LET hidden_dim == DPCNNHidden
        emb == CNNLayer("region_embedding", c.embed_dim, hidden_dim, 3, 1, Embedding(c, ids))
        x1 == CNNLayer("conv1", hidden_dim, hidden_dim, 3, 1, Relu(emb))
        x2 == CNNLayer("conv2", hidden_dim, hidden_dim, 3, 1, Relu(x1))
        feat == Blocks(c.n_block, hidden_dim, Add(x2, emb))
        pooled == TorchMax(feat)
    IN  [emb |-> emb, conv2 |-> x2, feat |-> feat, pooled |-> pooled,
         out |-> Linear("linear", hidden_dim, c.tag_dim, pooled)]

CNNAttnModel_forward(c, ids) ==
    LET emb == Embedding(c, ids)
        feat == Relu(CNNLayer("cnn", c.embed_dim, c.hidden_dim, DefaultWin, DefaultPad, emb))
        pooled == AttnLayer(c.hidden_dim, c.attn_dim, feat)
    IN  [feat |-> feat, pooled |-> pooled,
         out |-> Linear("linear", c.hidden_dim, c.tag_dim, pooled)]

(* ------------------------------------------------------------------ *)
(* The state machine: a configured model, a batch, and the last call   *)
(* ------------------------------------------------------------------ *)

(* Widths start at 2: below it the bidirectional encoders of RCNNModel and
   BiLSTMAttnModel, built with embed_dim // 2 and hidden_dim // 2, would have
   empty halves. *)
Configs ==
    [vocab : 2..MaxVocab, embed_dim : 2..MaxEmbed, hidden_dim : 2..MaxHidden,
     tag_dim : 1..MaxTag, padding_id : 0..(MaxVocab - 1), n_layer : 1..MaxLayer,
     attn_dim : {1}, n_block : 0..MaxBlock]

(* Exploring every configuration with every batch is out of reach, so each
   is varied around a reference point: width 2 everywhere, two tags and no
   pyramid block. *)
ReferenceConfigs ==
    {c \in Configs : /\ c.padding_id < c.vocab
                     /\ c.embed_dim = 2 /\ c.hidden_dim = 2 /\ c.tag_dim = 2
                     /\ c.n_block = 0}

(* Every width, tag count and pyramid depth, on the smallest vocabulary. *)
WidthConfigs ==
    {c \in Configs : c.vocab = 2 /\ c.padding_id < c.vocab /\ c.n_layer = 1}

(* One sequence with any id, the padding id included, at any position. *)
SingleBatches(vocab) ==
    UNION {[1..1 -> [1..L -> 0..(vocab - 1)]] : L \in 1..MaxSeqLen}

(* Shorter sequences are right-padded with the padding id: k real tokens,
   then padding up to the width of the batch. *)
PaddedRow(L, k, tok, padding_id) ==
    [p \in 1..L |-> IF p <= k THEN tok ELSE padding_id]

(* The batches of up to maxB right-padded rows. *)
PaddedBatches(c, maxB) ==
    LET tok == CHOOSE t \in 0..(c.vocab - 1) : t # c.padding_id
    IN  UNION {{[b \in 1..B |-> PaddedRow(L, ks[b], tok, c.padding_id)] :
                   ks \in [1..B -> 0..L]} :
               B \in 1..maxB, L \in 1..MaxSeqLen}

Init ==
    /\ \/ config \in ReferenceConfigs /\ x \in SingleBatches(config.vocab)
       \/ config \in ReferenceConfigs /\ config.vocab = 2
                                      /\ x \in PaddedBatches(config, MaxBatch)
       \/ config \in WidthConfigs /\ x \in PaddedBatches(config, 1)
    /\ call = "none"
    /\ res = [out |-> Fail("none")]

CalSeqLen ==
    /\ call = "none"
    /\ \E m \in 0..(MaxSeqLen + 1) :
          res' = [max_seq_len |-> m, lens |-> cal_seq_len(x, m, config.padding_id)]
    /\ call' = "cal_seq_len"
    /\ UNCHANGED <<config, x>>

LSTMForward ==
    /\ call = "none"
    /\ call' = "LSTMModel"
    /\ res' = LSTMModel_forward(config, x)
    /\ UNCHANGED <<config, x>>

RCNNForward ==
    /\ call = "none"
    /\ call' = "RCNNModel"
    /\ res' = RCNNModel_forward(config, x)
    /\ UNCHANGED <<config, x>>

BiLSTMAttnForward ==
    /\ call = "none"
    /\ call' = "BiLSTMAttnModel"
    /\ res' = BiLSTMAttnModel_forward(config, x)
    /\ UNCHANGED <<config, x>>

CNNForward ==
    /\ call = "none"
    /\ call' = "CNNModel"
    /\ res' = CNNModel_forward(config, x)
    /\ UNCHANGED <<config, x>>

TextCNNForward ==
    /\ call = "none"
    /\ call' = "TextCNNModel"
    /\ res' = TextCNNModel_forward(config, x)
    /\ UNCHANGED <<config, x>>

DPCNNForward ==
    /\ call = "none"
    /\ call' = "DPCNNModel"
    /\ res' = DPCNNModel_forward(config, x)
    /\ UNCHANGED <<config, x>>

CNNAttnForward ==
    /\ call = "none"
    /\ call' = "CNNAttnModel"
    /\ res' = CNNAttnModel_forward(config, x)
    /\ UNCHANGED <<config, x>>

Next ==
    \/ CalSeqLen
    \/ LSTMForward
    \/ RCNNForward
    \/ BiLSTMAttnForward
    \/ CNNForward
    \/ TextCNNForward
    \/ DPCNNForward
    \/ CNNAttnForward

Spec == Init /\ [][Next]_vars

(* ------------------------------------------------------------------ *)
(* Properties                                                          *)
(* ------------------------------------------------------------------ *)

BatchSize == Len(x)

SeqLen == Len(x[1])

Models ==
    {"LSTMModel", "RCNNModel", "BiLSTMAttnModel", "CNNModel", "TextCNNModel",
     "DPCNNModel", "CNNAttnModel"}

PadPositions(row) == {p \in 1..Len(row) : row[p] = config.padding_id}

RealPositions(row) == {p \in 1..Len(row) : row[p] # config.padding_id}

LastReal(row) == CHOOSE p \in RealPositions(row) : \A q \in RealPositions(row) : q <= p

(* A row whose padding ids are all trailing, with at least one real token. *)
RightPaddedReal(row) ==
    /\ RealPositions(row) # {}
    /\ \A p \in PadPositions(row) : \A q \in RealPositions(row) : q < p

(* The batch with k more padding positions appended to every row. *)
PadRight(ids, k) ==
    [b \in 1..Len(ids) |->
       [p \in 1..(Len(ids[b]) + k) |->
          IF p <= Len(ids[b]) THEN ids[b][p] ELSE config.padding_id]]

(* The batch of the single row: the first n positions of row. *)
Only(row, n) == <<[p \in 1..n |-> row[p]]>>

(* The configurations and batches forward rejects with a size error. *)
Rejected ==
    \/ call = "TextCNNModel" /\ SeqLen < 4
    \/ call = "RCNNModel" /\ config.embed_dim % 2 = 1
    \/ call = "BiLSTMAttnModel" /\ config.hidden_dim % 2 = 1

(* C1 as stated: every model returns scores of shape (batch_size, tag_dim)
   for every batch, whatever max_seq_len. *)
C1_ShapeForAllInputs ==
    call \in Models =>
        res.out.ok /\ res.out.shape = <<BatchSize, config.tag_dim>>

(* C1, amended: whenever forward returns, the scores have shape exactly
   (batch_size, tag_dim) whatever max_seq_len; forward returns for every
   batch with max_seq_len >= 1 except that TextCNNModel needs
   max_seq_len >= 4, RCNNModel an even embed_dim and BiLSTMAttnModel an even
   hidden_dim, and it fails with a size error otherwise. *)
C1_ShapeWhenAccepted ==
    call \in Models =>
        IF Rejected
        THEN ~res.out.ok /\ res.out.err = "size_error"
        ELSE res.out.ok /\ res.out.shape = <<BatchSize, config.tag_dim>>

C1_Witness ==
    /\ call = "TextCNNModel"
    /\ BatchSize = 2
    /\ SeqLen = 4
    /\ x[1] # x[2]
    /\ res.out.ok
    /\ res.out.shape = <<2, config.tag_dim>>

(* C2: for every row with at least one non-padding token, the hidden vector
   LSTMModel.forward selects is the recurrent state obtained by feeding only
   the row's first `length` tokens through the encoder, and it is the same
   when the row is right-padded further. *)
C2_PaddingInvariance ==
    call = "LSTMModel" =>
        \A b \in 1..BatchSize :
            res.lens[b] >= 1 =>
                LET alone == LSTMLayer(config.embed_dim, config.hidden_dim, config.n_layer,
                                       FALSE, Embedding(config, Only(x[b], res.lens[b])))
                IN  /\ res.hidden.ok
                    /\ res.hidden.v[b] = alone.v[1][res.lens[b]]
                    /\ \A k \in 1..MaxPad :
                          LET more == LSTMModel_forward(config, PadRight(x, k))
                          IN  more.hidden.ok /\ more.hidden.v[b] = res.hidden.v[b]

C2_Witness ==
    /\ call = "LSTMModel"
    /\ config.n_layer = 2
    /\ \E b \in 1..BatchSize :
          /\ res.lens[b] >= 2
          /\ res.lens[b] < SeqLen
          /\ res.hidden.v[b] # res.enc.v[b][SeqLen]
          /\ LSTMModel_forward(config, PadRight(x, 1)).hidden.v[b] = res.hidden.v[b]

(* C3: TextCNNModel.forward succeeds for max_seq_len >= 4, the branch with
   window w yielding max_seq_len - w + 1 positions before max-pooling, and
   fails with a size error, returning no scores, for max_seq_len = 3. *)
C3_TextCNNBoundary ==
    call = "TextCNNModel" =>
        /\ SeqLen >= 4 =>
              /\ res.out.ok
              /\ res.feat1.shape[2] = SeqLen - 2 + 1
              /\ res.feat2.shape[2] = SeqLen - 3 + 1
              /\ res.feat3.shape[2] = SeqLen - 4 + 1
        /\ SeqLen = 3 => ~res.out.ok /\ res.out.err = "size_error"

C3_Witness ==
    /\ call = "TextCNNModel"
    /\ SeqLen = 4
    /\ res.out.ok
    /\ res.feat3.shape[2] = 1
    /\ res.feat1.shape[2] = 3

(* C4: cal_seq_len returns, for every row, max_seq_len minus the number of
   positions equal to the padding id, wherever they are; when max_seq_len is
   the row width the result is between 0 and max_seq_len. *)
C4_SeqLenCountsPadding ==
    call = "cal_seq_len" =>
        \A b \in 1..BatchSize :
            /\ res.lens[b] = res.max_seq_len - Cardinality(PadPositions(x[b]))
            /\ res.max_seq_len = SeqLen => 0 <= res.lens[b] /\ res.lens[b] <= SeqLen

C4_Witness ==
    /\ call = "cal_seq_len"
    /\ res.max_seq_len = SeqLen
    /\ config.padding_id # 0
    /\ \E p \in PadPositions(x[1]) : \E q \in RealPositions(x[1]) : p < q
    /\ res.lens[1] = SeqLen - Cardinality(PadPositions(x[1]))
    /\ res.lens[1] < SeqLen

(* C5: for every right-padded row with a non-padding token, the position
   LSTMModel.forward gathers, lens - 1, is the position of the row's last
   non-padding token, and not the last position max_seq_len - 1 when the
   row has padding. *)
C5_GatherLastRealToken ==
    call = "LSTMModel" =>
        \A b \in 1..BatchSize :
            RightPaddedReal(x[b]) =>
                /\ res.index[b] = LastReal(x[b]) - 1
                /\ res.hidden.ok
                /\ res.hidden.v[b] = res.enc.v[b][LastReal(x[b])]
                /\ PadPositions(x[b]) # {} =>
                      /\ res.index[b] # SeqLen - 1
                      /\ res.hidden.v[b] # res.enc.v[b][SeqLen]

C5_Witness ==
    /\ call = "LSTMModel"
    /\ BatchSize = 2
    /\ RightPaddedReal(x[1]) /\ RightPaddedReal(x[2])
    /\ res.index[1] # res.index[2]
    /\ res.index[2] = LastReal(x[2]) - 1
    /\ res.index[2] < SeqLen - 1
    /\ res.hidden.v[2] = res.enc.v[2][LastReal(x[2])]

(* C6 as stated: when a row is all padding ids, LSTMModel.forward fails with
   an index-out-of-range error and returns no scores. *)
C6_AllPaddingRaises ==
    (call = "LSTMModel" /\ \E b \in 1..BatchSize : RealPositions(x[b]) = {}) =>
        ~res.out.ok /\ res.out.err = "index_error"

(* The linear head applied to the max, over all max_seq_len positions, of
   the conv2 output plus the region-embedding output. *)
C7_Direct ==
    LET region == CNNLayer("region_embedding", config.embed_dim, DPCNNHidden, 3, 1,
                           Embedding(config, x))
        c1 == CNNLayer("conv1", DPCNNHidden, DPCNNHidden, 3, 1, Relu(region))
        c2 == CNNLayer("conv2", DPCNNHidden, DPCNNHidden, 3, 1, Relu(c1))
    IN  [b \in 1..BatchSize |->
           <<"linear", "linear",
             <<"max", {<<"add", c2.v[b][p], region.v[b][p]>> : p \in 1..SeqLen}>>>>]

(* C7: with n_block = 0 DPCNNModel.forward returns the linear head applied
   to the max over all max_seq_len positions of conv2 output plus region
   embedding output; the max-pool sees max_seq_len positions. *)
C7_NoBlockIsIdentity ==
    (call = "DPCNNModel" /\ config.n_block = 0) =>
        /\ res.out.ok
        /\ res.feat.shape[2] = SeqLen
        /\ res.out.v = C7_Direct

C7_Witness ==
    /\ call = "DPCNNModel"
    /\ config.n_block = 0
    /\ SeqLen = 4
    /\ BatchSize = 2
    /\ x[1] # x[2]
    /\ res.feat.shape = <<2, 4, DPCNNHidden>>
    /\ res.out.v = C7_Direct

(* C8 as stated: for every embed_dim the bidirectional encoder's output has
   width embed_dim, the concatenation 2 * embed_dim, and the encoder linear
   layer never meets a width mismatch. *)
C8_WidthForEveryEmbedDim ==
    call = "RCNNModel" =>
        /\ res.context.shape[3] = config.embed_dim
        /\ res.cat.shape[3] = 2 * config.embed_dim
        /\ res.feat.ok

(* C8, amended: for every even embed_dim the bidirectional encoder's output
   has width embed_dim, the concatenation 2 * embed_dim, and the encoder
   linear layer accepts it; for an odd embed_dim the widths are
   embed_dim - 1 and 2 * embed_dim - 1 and forward fails with a size error
   at the encoder linear layer. *)
C8_WidthForEvenEmbedDim ==
    call = "RCNNModel" =>
        /\ res.context.ok /\ res.cat.ok
        /\ IF config.embed_dim % 2 = 0
           THEN /\ res.context.shape[3] = config.embed_dim
                /\ res.cat.shape[3] = 2 * config.embed_dim
                /\ res.feat.ok /\ res.feat.shape[3] = config.hidden_dim
                /\ res.out.ok
           ELSE /\ res.context.shape[3] = config.embed_dim - 1
                /\ res.cat.shape[3] = 2 * config.embed_dim - 1
                /\ ~res.feat.ok /\ res.feat.err = "size_error"
                /\ ~res.out.ok

C8_Witness ==
    /\ call = "RCNNModel"
    /\ config.embed_dim = 2
    /\ config.hidden_dim = 3
    /\ res.cat.shape[3] = 4
    /\ res.feat.ok
    /\ res.out.ok

(* C9 as stated: for every hidden_dim the concatenated halves of the
   bidirectional encoder have width exactly hidden_dim, matching the
   attention layer and the linear head. *)
C9_WidthForEveryHiddenDim ==
    call = "BiLSTMAttnModel" =>
        /\ res.enc.shape[3] = config.hidden_dim
        /\ res.pooled.ok
        /\ res.out.ok

(* C9, amended: for every even hidden_dim the two halves have width
   hidden_dim / 2 and their concatenation width hidden_dim, which the
   attention layer and the linear head accept; for an odd hidden_dim the
   concatenation has width hidden_dim - 1 and forward fails with a size
   error at the attention layer. *)
C9_WidthForEvenHiddenDim ==
    call = "BiLSTMAttnModel" =>
        /\ res.enc.ok
        /\ res.enc.shape[3] = 2 * (config.hidden_dim \div 2)
        /\ IF config.hidden_dim % 2 = 0
           THEN /\ res.enc.shape[3] = config.hidden_dim
                /\ res.pooled.ok /\ res.pooled.shape[2] = config.hidden_dim
                /\ res.out.ok
           ELSE /\ res.enc.shape[3] = config.hidden_dim - 1
                /\ ~res.pooled.ok /\ res.pooled.err = "size_error"
                /\ ~res.out.ok

C9_Witness ==
    /\ call = "BiLSTMAttnModel"
    /\ config.hidden_dim = 2
    /\ res.enc.shape[3] = 2
    /\ res.pooled.ok
    /\ res.out.ok

(* The pooled vector of the batch made of row b without its trailing
   padding. *)
C10_Unpadded(b) ==
    LET row == Only(x[b], LastReal(x[b]))
    IN  IF call = "CNNModel" THEN CNNModel_forward(config, row).pooled.v[1]
        ELSE RCNNModel_forward(config, row).pooled.v[1]

(* C10: in RCNNModel.forward and CNNModel.forward the pooled vector of every
   row is the max over all max_seq_len positions of the encoded sequence,
   the padded positions included. *)
C10_PoolingIsUnmasked ==
    (call \in {"RCNNModel", "CNNModel"} /\ res.feat.ok) =>
        /\ res.pooled.ok
        /\ res.feat.shape[2] = SeqLen
        /\ \A b \in 1..BatchSize :
              res.pooled.v[b] = <<"max", {res.feat.v[b][p] : p \in 1..SeqLen}>>

(* A row whose pooled vector is not the one of the same tokens without the
   trailing padding. *)
C10_Witness ==
    /\ call \in {"RCNNModel", "CNNModel"}
    /\ res.pooled.ok
    /\ \E b \in 1..BatchSize :
          /\ RightPaddedReal(x[b])
          /\ PadPositions(x[b]) # {}
          /\ res.pooled.v[b] = <<"max", {res.feat.v[b][p] : p \in 1..SeqLen}>>
          /\ C10_Unpadded(b) # res.pooled.v[b]

====
